---- MODULE Spec2Model ----
(***************************************************************************)
(* OpenPlaud: the Telegram bot ingestion loop (lib/telegram/bot),          *)
(* its trigger route GET /api/telegram/poll and the manual upload route    *)
(* POST /api/recordings/upload, as one state machine.                      *)
(*                                                                         *)
(* Strings that the code parses (TELEGRAM_ALLOWED_USERS) are sequences of  *)
(* one-character strings; the Telegram server, the storage backend and     *)
(* the database are the environment and answer nondeterministically.       *)
(***************************************************************************)
EXTENDS Integers, Sequences, FiniteSets, TLC

(* ---------------------------- bounds ----------------------------------- *)

\* number of updates the Telegram server holds for the bot in one run
MaxUpdates == 2

\* number of requests to the manual upload route in one run
MaxUploads == 1

\* number of failures of the environment (Telegram, storage, database) in one run
MaxFaults == 1

(* ------------------------ program constants ---------------------------- *)

\* setTimeout(resolve, 5000) in the outer catch of the loop
BackoffDelayMs == 5000

\* getUpdates: timeout: 30
LongPollTimeout == 30

(* ------------------- strings: split(',') and trim() -------------------- *)

RECURSIVE FirstComma(_, _)
\* index of the first "," of s at or after position i, 0 when there is none
FirstComma(s, i) ==
    IF i > Len(s) THEN 0
    ELSE IF s[i] = "," THEN i
    ELSE FirstComma(s, i + 1)

RECURSIVE Split(_)
\* String.prototype.split(','): "" gives [""], "a,b" gives ["a","b"]
Split(s) ==
    LET c == FirstComma(s, 1)
    IN  IF c = 0 THEN << s >>
        ELSE << SubSeq(s, 1, c - 1) >> \o Split(SubSeq(s, c + 1, Len(s)))

RECURSIVE Trim(_)
\* String.prototype.trim() over the blank character " "
Trim(s) ==
    IF s = << >> THEN s
    ELSE IF Head(s) = " " THEN Trim(Tail(s))
    ELSE IF s[Len(s)] = " " THEN Trim(SubSeq(s, 1, Len(s) - 1))
    ELSE s

\* Number.prototype.toString() for the one-digit sender ids of the model
IdToString(n) == << ToString(n) >>

(* ------------------------- inputs of a run ----------------------------- *)

\* env.TELEGRAM_ALLOWED_USERS: undefined, "", "1, 2"
AllowedEnvValues ==
    { [set |-> FALSE, val |-> << >>],
      [set |-> TRUE,  val |-> << >>],
      [set |-> TRUE,  val |-> << "1", ",", " ", "2" >>] }

\* the rows of the users table, in the order select().limit(1) sees them
UserTables == { << >>, << "u1", "u2" >> }

\* message.date, epoch seconds
Dates == { 3725 }

\* a duration field the server left out (undefined)
Absent == 0 - 1

NoMessage ==
    [ present |-> FALSE, hasFrom |-> FALSE, from |-> 0, chat_id |-> 0,
      kind |-> "none", file_id |-> "", duration |-> Absent, file_name |-> "",
      date |-> 0 ]

Message(hasFrom, from, kind, file_id, duration, file_name, date) ==
    [ present |-> TRUE, hasFrom |-> hasFrom, from |-> from, chat_id |-> from,
      kind |-> kind, file_id |-> file_id, duration |-> duration,
      file_name |-> file_name, date |-> date ]

\* the shapes of TelegramUpdate.message the server delivers
Messages ==
    { NoMessage } \cup
    UNION { { Message(FALSE, 0, "voice", "f1", 12, "", d),
              Message(TRUE, 2, "text", "", Absent, "", d),
              Message(TRUE, 2, "voice", "f1", 12, "", d),
              Message(TRUE, 3, "voice", "f1", 12, "", d),
              Message(TRUE, 2, "audio", "f2", Absent, "a.mp3", d) } : d \in Dates }

RECURSIVE Feeds(_)
\* the sequences of at most n messages
Feeds(n) ==
    IF n = 0 THEN { << >> }
    ELSE LET shorter == Feeds(n - 1)
         IN  shorter \cup
             { Append(f, m) : f \in { g \in shorter : Len(g) = n - 1 },
                              m \in Messages }

\* interface TelegramUpdate; update ids are the positions in the feed
Update(i, m) == [ update_id |-> i, message_id |-> i, message |-> m ]

UpdateIds == 1 .. MaxUpdates

(* ------------------------------ state ---------------------------------- *)

VARIABLES
    tokenConfigured,   \* env.TELEGRAM_BOT_TOKEN is set
    allowedEnv,        \* env.TELEGRAM_ALLOWED_USERS
    users,             \* the users table
    feed,              \* the messages users send to the bot in this run
    defaultStorageType, \* env.DEFAULT_STORAGE_TYPE
    arrived,           \* how many of them the Telegram server has received
    isPollingStarted,  \* poll/route.ts: let isPollingStarted
    running,           \* number of pollTelegramUpdates calls that have not ended
    lastStatus,        \* status of the last answer of GET /api/telegram/poll
    pc,                \* position of the loop
    lastUpdateId,      \* bot: let lastUpdateId
    batch,             \* result.result of the last getUpdates
    idx,               \* position of the for loop in batch
    buffer,            \* bot: const buffer
    recordingId,       \* bot: const recordingId
    storagePath,       \* bot: const storagePath
    catalog,           \* the recordings table
    blobs,             \* the blobs of the storage backend
    sent,              \* the sendMessage requests issued
    uploads,           \* number of requests the manual upload route has handled
    lastPost,          \* HTTP status of the last answer of the upload route
    posted,            \* the session user and the file of the last upload request
    transcripts,       \* the transcriptions table
    settings,          \* the userSettings table: defaultExportFormat per user
    storageConfig,     \* the storageConfig table: storageType per user
    served,            \* last exchange of the export, backup and storage routes
    hist,              \* per update: the steps the loop has completed for it
    visits,            \* per update: times the for loop has taken it
    seenMax,           \* largest update_id of the responses received
    lastPollFailed,    \* the last getUpdates call threw or answered not ok
    waitedMs,          \* delay elapsed since the last getUpdates call returned
    lastRequest,       \* body of the last getUpdates request
    faults,            \* number of failures the environment has produced
    variant,           \* the entrypoint script of the image: node or bun
    entry,             \* position of the entrypoint script
    dbUp,              \* the database answers
    bootLog,           \* the steps the entrypoint has completed, in order
    exitStatus         \* exit status of the entrypoint

boot == << variant, entry, dbUp, bootLog, exitStatus >>

\* what the application never changes: its environment, the users and the
\* messages sent to it, and the state of the entrypoint that started it
config ==
    << tokenConfigured, allowedEnv, users, feed, defaultStorageType, boot >>

trigger == << isPollingStarted, running, lastStatus >>

position == << batch, idx >>

locals == << buffer, recordingId, storagePath >>

manual == << uploads, lastPost, posted >>

routes == << transcripts, settings, storageConfig, served >>

polls == << seenMax, lastPollFailed, waitedMs, lastRequest >>

vars ==
    << config, routes, arrived, trigger, pc, lastUpdateId, position, locals,
       catalog, blobs, sent, manual, hist, visits, polls, faults >>

NoRequest == [ offset |-> 0, timeout |-> 0, allowed_updates |-> << >> ]

\* the ids of the rows of the users table
UserIds == { users[i] : i \in 1 .. Len(users) }

\* formData.get("file"): absent, or a File with its name and MIME type
NoFile ==
    [ present |-> FALSE, name |-> "", ext |-> "",
      type |-> [ major |-> "", minor |-> "" ] ]

\* no upload request yet
NoPost == [ user |-> "", file |-> NoFile ]

\* no request to the export, backup and storage routes yet
NoExchange ==
    [ route |-> "", user |-> "", format |-> "", status |-> 0,
      contentType |-> "", body |-> << >> ]

NoBuffer == [ file_id |-> "", audio |-> FALSE ]

NoPath ==
    [ source |-> "", userId |-> "", time |-> 0,
      filename |-> [ generated |-> FALSE, name |-> "", rid |-> "" ] ]

\* the process has not exited
NoExit == 0 - 1

\* the entrypoint has run through and has replaced itself by the application
Started ==
    /\ variant = "node"
    /\ entry = "app"
    /\ dbUp = TRUE
    /\ bootLog = << "probed", "migrated" >>
    /\ exitStatus = NoExit

\* no request has been handled and no loop has been started
Idle ==
    /\ arrived = 0
    /\ isPollingStarted = FALSE
    /\ running = 0
    /\ lastStatus = "none"
    /\ pc = "stopped"
    /\ lastUpdateId = 0
    /\ batch = << >>
    /\ idx = 0
    /\ buffer = NoBuffer
    /\ recordingId = ""
    /\ storagePath = NoPath
    /\ sent = { }
    /\ uploads = 0
    /\ lastPost = 0
    /\ posted = NoPost
    /\ served = NoExchange
    /\ hist = [ u \in UpdateIds |-> { } ]
    /\ visits = [ u \in UpdateIds |-> 0 ]
    /\ seenMax = 0
    /\ lastPollFailed = FALSE
    /\ waitedMs = 0
    /\ lastRequest = NoRequest
    /\ faults = 0

\* an application without recordings, before its first request
Init ==
    /\ tokenConfigured \in BOOLEAN
    /\ allowedEnv \in AllowedEnvValues
    /\ users \in UserTables
    /\ feed \in Feeds(MaxUpdates)
    /\ defaultStorageType = ""
    /\ catalog = { }
    /\ blobs = { }
    /\ transcripts = { }
    /\ settings = [ u \in UserIds |-> "" ]
    /\ storageConfig = [ u \in UserIds |-> "" ]
    /\ Idle
    /\ Started

(* ------------------------- the environment ----------------------------- *)

\* a || b for strings: the empty string and undefined are falsy
Or(a, b) == IF a # "" THEN a ELSE b

\* a call to Telegram, the storage backend or the database fails
Fault == faults < MaxFaults /\ faults' = faults + 1

\* the call succeeds
NoFault == faults' = faults

(* ---------------------- the recordings table --------------------------- *)

\* mutant: the table has no unique constraint
NoUniqueConstraint(cat, row) == FALSE

\* the constraint of the recordings table: (userId, plaudFileId) is unique
UniqueViolation(cat, row) ==
    \E r \in cat : r.userId = row.userId /\ r.plaudFileId = row.plaudFileId

\* mutant: the insert replaces the rows of the same user
DbReplace(cat, row) == { r \in cat : r.userId # row.userId } \cup { row }

\* db.insert(recordings).values(row) when the statement does not throw
DbInsert(cat, row) == cat \cup { row }

(* ---------------------- the storage provider --------------------------- *)

\* uploadFile(key, buffer, contentType): the blob of key becomes buffer
UploadFile(store, key, bytes) ==
    { b \in store : b.key # key } \cup { [ key |-> key, bytes |-> bytes ] }

(* ------------------- GET /api/telegram/poll ---------------------------- *)

\* mutant: the route starts the loop and never sets the flag
PollGETUnflagged ==
    /\ \/ /\ ~tokenConfigured
          /\ lastStatus' = "Telegram bot not configured"
          /\ UNCHANGED << isPollingStarted, running, pc >>
       \/ /\ tokenConfigured
          /\ isPollingStarted' = isPollingStarted
          /\ running' = running + 1
          /\ pc' = "fetch"
          /\ lastStatus' = "Telegram polling started"
    /\ UNCHANGED << config, routes, arrived, lastUpdateId, position, locals, catalog,
                    blobs, sent, manual, hist, visits, polls, faults >>

\* mutant: the flag is set before the token is tested
PollGETFlagFirst ==
    /\ \/ /\ ~tokenConfigured
          /\ isPollingStarted' = TRUE
          /\ lastStatus' = "Telegram bot not configured"
          /\ UNCHANGED << running, pc >>
       \/ /\ tokenConfigured
          /\ isPollingStarted
          /\ lastStatus' = "Polling already active"
          /\ UNCHANGED << isPollingStarted, running, pc >>
       \/ /\ tokenConfigured
          /\ ~isPollingStarted
          /\ isPollingStarted' = TRUE
          /\ running' = running + 1
          /\ pc' = "fetch"
          /\ lastStatus' = "Telegram polling started"
    /\ UNCHANGED << config, routes, arrived, lastUpdateId, position, locals, catalog,
                    blobs, sent, manual, hist, visits, polls, faults >>

\* poll/route.ts GET: no await between the test of the flag and its assignment
PollGET ==
    /\ \/ /\ ~tokenConfigured
          /\ lastStatus' = "Telegram bot not configured"
          /\ UNCHANGED << isPollingStarted, running, pc >>
       \/ /\ tokenConfigured
          /\ isPollingStarted
          /\ lastStatus' = "Polling already active"
          /\ UNCHANGED << isPollingStarted, running, pc >>
       \/ /\ tokenConfigured
          /\ ~isPollingStarted
          /\ isPollingStarted' = TRUE
          /\ running' = running + 1
          /\ pc' = "fetch"
          /\ lastStatus' = "Telegram polling started"
    /\ UNCHANGED << config, routes, arrived, lastUpdateId, position, locals, catalog,
                    blobs, sent, manual, hist, visits, polls, faults >>

(* ------------------- pollTelegramUpdates ------------------------------- *)

\* const allowedUsers = env.TELEGRAM_ALLOWED_USERS?.split(',').map(trim) || []
allowedUsers ==
    IF ~allowedEnv.set THEN << >>
    ELSE LET parts == Split(allowedEnv.val)
         IN  [ i \in 1 .. Len(parts) |-> Trim(parts[i]) ]

\* allowedUsers.includes(message.from.id.toString())
Includes(list, from) ==
    \E i \in 1 .. Len(list) : list[i] = IdToString(from)

\* mutant: the loop does not filter the senders
AllowsEveryone(from) == TRUE

\* the sender passes the filter of the loop
IsAllowed(from) == ~(Len(allowedUsers) > 0 /\ ~Includes(allowedUsers, from))

\* mutant: every message counts as a payload
HasAnyPayload(m) == TRUE

\* const audio = message.voice || message.audio
HasAudio(m) == m.kind \in { "voice", "audio" }

\* mutant: the request asks from the cursor on
OffsetAtCursor == lastUpdateId

\* getUpdates: offset: lastUpdateId + 1
Offset == lastUpdateId + 1

\* mutant: the request asks for every type of update and does not wait
GetUpdatesBodyShortPoll ==
    [ offset |-> Offset, timeout |-> 0, allowed_updates |-> << >> ]

\* the body of tg('getUpdates', {...})
GetUpdatesBody ==
    [ offset |-> Offset, timeout |-> LongPollTimeout,
      allowed_updates |-> << "message" >> ]

Max(a, b) == IF a >= b THEN a ELSE b

\* the answer of the server: the updates received so far, from offset on
Pending(offset, upto) ==
    LET lo == Max(offset, 1)
        ids == { i \in 1 .. upto : i >= lo }
    IN  [ k \in 1 .. Cardinality(ids) |-> Update(lo + k - 1, feed[lo + k - 1]) ]

\* the current update of the for loop
Cur == batch[idx]

Note(events) == [ hist EXCEPT ![Cur.update_id] = @ \cup events ]

\* the end of one pass of the for body: the next update, or the next request
Continue ==
    /\ idx' = IF idx < Len(batch) THEN idx + 1 ELSE 0
    /\ batch' = IF idx < Len(batch) THEN batch ELSE << >>
    /\ pc' = IF idx < Len(batch) THEN "next" ELSE "fetch"
    /\ buffer' = NoBuffer
    /\ recordingId' = ""
    /\ storagePath' = NoPath

\* catch (err) of the for body: console.error, then the next update
CatchInner(events) ==
    /\ hist' = Note(events \cup { "error" })
    /\ Continue

\* await tg('getUpdates', ...) and the test of its result
GetUpdates ==
    /\ pc = "fetch"
    /\ \/ \* fetch throws, or the body of the answer is no JSON
          /\ Fault
          /\ pc' = "backoff"
          /\ lastPollFailed' = TRUE
          /\ UNCHANGED << arrived, position, seenMax >>
       \/ \* the answer is { ok: false }, as with a non-2xx status
          /\ Fault
          /\ pc' = "fetch"
          /\ lastPollFailed' = TRUE
          /\ UNCHANGED << arrived, position, seenMax >>
       \/ \E a \in arrived .. Len(feed) :
            LET result == Pending(GetUpdatesBody.offset, a)
            IN  /\ NoFault
                /\ arrived' = a
                /\ lastPollFailed' = FALSE
                /\ seenMax' = IF Len(result) > 0
                              THEN Max(seenMax, result[Len(result)].update_id)
                              ELSE seenMax
                /\ IF Len(result) > 0
                   THEN batch' = result /\ idx' = 1 /\ pc' = "next"
                   ELSE batch' = << >> /\ idx' = 0 /\ pc' = "fetch"
    /\ waitedMs' = 0
    /\ lastRequest' = GetUpdatesBody
    /\ UNCHANGED << config, routes, trigger, lastUpdateId, locals, catalog, blobs,
                    sent, manual, hist, visits >>

\* mutant: the cursor moves only after the test of message
AdvanceAfterTest ==
    /\ pc = "next"
    /\ lastUpdateId' = IF Cur.message.present /\ Cur.message.hasFrom
                       THEN Cur.update_id
                       ELSE lastUpdateId
    /\ visits' = [ visits EXCEPT ![Cur.update_id] = @ + 1 ]
    /\ hist' = Note({ "cursor" })
    /\ pc' = "check"
    /\ UNCHANGED << config, routes, arrived, trigger, position, locals, catalog,
                    blobs, sent, manual, polls, faults >>

\* lastUpdateId = update.update_id
Advance ==
    /\ pc = "next"
    /\ lastUpdateId' = Cur.update_id
    /\ visits' = [ visits EXCEPT ![Cur.update_id] = @ + 1 ]
    /\ hist' = Note({ "cursor" })
    /\ pc' = "check"
    /\ UNCHANGED << config, routes, arrived, trigger, position, locals, catalog,
                    blobs, sent, manual, polls, faults >>

\* the tests on message, message.from, the allow-list and the payload
Check ==
    /\ pc = "check"
    /\ LET m == Cur.message
       IN  IF ~m.present \/ ~m.hasFrom
           THEN hist' = hist /\ Continue
           ELSE IF ~IsAllowed(m.from)
           THEN hist' = Note({ "unauthorized" }) /\ Continue
           ELSE IF HasAudio(m)
           THEN /\ hist' = Note({ "received" })
                /\ pc' = "lookup"
                /\ UNCHANGED << position, locals >>
           ELSE hist' = hist /\ Continue
    /\ UNCHANGED << config, routes, arrived, trigger, lastUpdateId, catalog, blobs,
                    sent, manual, visits, polls, faults >>

\* mutant: a throw of the select moves the cursor past the whole response
LookupSkipsBatch ==
    /\ pc = "lookup"
    /\ \/ /\ Fault
          /\ hist' = Note({ "pollerror" })
          /\ pc' = "backoff"
          /\ lastUpdateId' = batch[Len(batch)].update_id
          /\ batch' = << >>
          /\ idx' = 0
          /\ UNCHANGED locals
       \/ /\ NoFault
          /\ users = << >>
          /\ hist' = hist
          /\ Continue
          /\ UNCHANGED lastUpdateId
       \/ /\ NoFault
          /\ users # << >>
          /\ hist' = Note({ "lookup" })
          /\ pc' = "download"
          /\ UNCHANGED << position, locals, lastUpdateId >>
    /\ UNCHANGED << config, routes, arrived, trigger, catalog, blobs,
                    sent, manual, visits, polls >>

\* const [targetUser] = await db.select().from(users).limit(1)
Lookup ==
    /\ pc = "lookup"
    /\ \/ \* the select throws: the outer catch
          /\ Fault
          /\ hist' = Note({ "pollerror" })
          /\ pc' = "backoff"
          /\ batch' = << >>
          /\ idx' = 0
          /\ UNCHANGED locals
       \/ /\ NoFault
          /\ users = << >>
          /\ hist' = hist
          /\ Continue
       \/ /\ NoFault
          /\ users # << >>
          /\ hist' = Note({ "lookup" })
          /\ pc' = "download"
          /\ UNCHANGED << position, locals >>
    /\ UNCHANGED << config, routes, arrived, trigger, lastUpdateId, catalog, blobs,
                    sent, manual, visits, polls >>

\* mutant: the last row of the users table
lastUser == users[Len(users)]

\* the first row of the users table
targetUser == Head(users)

\* const buffer = await downloadFile(audio.file_id)
Download ==
    /\ pc = "download"
    /\ \/ \* getFile answers not ok, or a fetch throws
          /\ Fault
          /\ CatchInner({ })
       \/ \* the bytes of the file
          /\ NoFault
          /\ buffer' = [ file_id |-> Cur.message.file_id, audio |-> TRUE ]
          /\ hist' = Note({ "download" })
          /\ pc' = "upload"
          /\ UNCHANGED << position, recordingId, storagePath >>
       \/ \* the file URL answers non-2xx: the body of that answer
          /\ Fault
          /\ buffer' = [ file_id |-> Cur.message.file_id, audio |-> FALSE ]
          /\ hist' = Note({ "download", "non2xx" })
          /\ pc' = "upload"
          /\ UNCHANGED << position, recordingId, storagePath >>
    /\ UNCHANGED << config, routes, arrived, trigger, lastUpdateId, catalog, blobs,
                    sent, manual, visits, polls >>

\* the nanoid() values still held by a row, a blob or the loop
UsedIds ==
    { r.id : r \in catalog } \cup { b.key.filename.rid : b \in blobs }
        \cup { recordingId }

\* nanoid(): a value that collides with none in use
Nanoid ==
    LET k == CHOOSE n \in 1 .. Cardinality(UsedIds) + 1 :
                 /\ ToString(n) \notin UsedIds
                 /\ \A m \in 1 .. n - 1 : ToString(m) \in UsedIds
    IN  ToString(k)

\* const timestamp = new Date(message.date * 1000), as getTime()
Timestamp(m) == m.date * 1000

\* (audio as any).file_name || `telegram-${recordingId}.ogg`
Filename(m, rid) ==
    IF m.file_name # ""
    THEN [ generated |-> FALSE, name |-> m.file_name, rid |-> "" ]
    ELSE [ generated |-> TRUE, name |-> "telegram-.ogg", rid |-> rid ]

\* `telegram/${targetUser.id}/${timestamp.getTime()}-${filename}`
StorageKey(user, m, rid) ==
    [ source |-> "telegram", userId |-> user, time |-> Timestamp(m),
      filename |-> Filename(m, rid) ]

\* mutant: a throw of uploadFile is swallowed and the insert follows
UploadSwallows ==
    /\ pc = "upload"
    /\ LET key == StorageKey(targetUser, Cur.message, Nanoid)
       IN  /\ recordingId' = Nanoid
           /\ storagePath' = key
           /\ pc' = "insert"
           /\ UNCHANGED << position, buffer >>
           /\ \/ /\ Fault
                 /\ hist' = hist
                 /\ UNCHANGED blobs
              \/ /\ NoFault
                 /\ blobs' = UploadFile(blobs, key, buffer)
                 /\ hist' = Note({ "upload" })
    /\ UNCHANGED << config, routes, arrived, trigger, lastUpdateId, catalog, sent,
                    manual, visits, polls >>

\* createUserStorageProvider, nanoid and storageProvider.uploadFile
Upload ==
    /\ pc = "upload"
    /\ \/ \* createUserStorageProvider or uploadFile throws
          /\ Fault
          /\ CatchInner({ })
          /\ UNCHANGED blobs
       \/ LET key == StorageKey(targetUser, Cur.message, Nanoid)
          IN  /\ NoFault
              /\ recordingId' = Nanoid
              /\ blobs' = UploadFile(blobs, key, buffer)
              /\ storagePath' = key
              /\ hist' = Note({ "upload" })
              /\ pc' = "insert"
              /\ UNCHANGED << position, buffer >>
    /\ UNCHANGED << config, routes, arrived, trigger, lastUpdateId, catalog, sent,
                    manual, visits, polls >>

\* mutant: the duration is stored in seconds
DurationSeconds(m) == IF m.duration = Absent THEN 0 ELSE m.duration

\* (audio.duration || 0) * 1000
DurationMs(m) ==
    (IF m.duration = Absent \/ m.duration = 0 THEN 0 ELSE m.duration) * 1000

\* buffer.length and file.size: every file of the model is one byte long
ByteLength == 1

\* the values of db.insert(recordings).values({...}) of the loop
BotRow(user, m, rid, path) ==
    [ id |-> rid,
      userId |-> user,
      deviceSn |-> "TELEGRAM",
      plaudFileId |-> [ prefix |-> "tg-", id |-> m.file_id ],
      filename |-> Filename(m, rid),
      duration |-> DurationMs(m),
      startTime |-> Timestamp(m),
      endTime |-> Timestamp(m),
      filesize |-> ByteLength,
      storagePath |-> path,
      storageType |-> Or(defaultStorageType, "local") ]

\* await db.insert(recordings).values({...})
Insert ==
    /\ pc = "insert"
    /\ LET row == BotRow(targetUser, Cur.message, recordingId, storagePath)
       IN  \/ \* the database is unreachable
              /\ Fault
              /\ CatchInner({ })
              /\ UNCHANGED catalog
           \/ /\ NoFault
              /\ UniqueViolation(catalog, row)
              /\ CatchInner({ "duplicate" })
              /\ UNCHANGED catalog
           \/ /\ NoFault
              /\ ~UniqueViolation(catalog, row)
              /\ catalog' = DbInsert(catalog, row)
              /\ hist' = Note({ "insert" })
              /\ pc' = "ack"
              /\ UNCHANGED << position, locals >>
    /\ UNCHANGED << config, routes, arrived, trigger, lastUpdateId, blobs, sent,
                    manual, visits, polls >>

\* the body of tg('sendMessage', {...}) of the loop
Reply(update) ==
    [ chat_id |-> update.message.chat_id,
      reply_to_message_id |-> update.message_id ]

\* await tg('sendMessage', ...): the request, then its answer or a throw
Ack ==
    /\ pc = "ack"
    /\ sent' = sent \cup { Reply(Cur) }
    /\ \/ /\ NoFault
          /\ hist' = Note({ "ack" })
          /\ Continue
       \/ \* the answer is lost, or its body is no JSON
          /\ Fault
          /\ CatchInner({ "ack" })
    /\ UNCHANGED << config, routes, arrived, trigger, lastUpdateId, catalog, blobs,
                    manual, visits, polls >>

\* mutant: the outer catch rethrows and the loop ends
BackoffRethrows ==
    /\ pc = "backoff"
    /\ pc' = "rejected"
    /\ UNCHANGED << config, routes, arrived, trigger, lastUpdateId, position, locals,
                    catalog, blobs, sent, manual, hist, visits, polls,
                    faults >>

\* the outer catch: await new Promise(resolve => setTimeout(resolve, 5000))
Backoff ==
    /\ pc = "backoff"
    /\ waitedMs' = BackoffDelayMs
    /\ pc' = "fetch"
    /\ UNCHANGED << config, routes, arrived, trigger, lastUpdateId, position, locals,
                    catalog, blobs, sent, manual, hist, visits, seenMax,
                    lastPollFailed, lastRequest, faults >>

BotLoop ==
    \/ GetUpdates
    \/ Advance
    \/ Check
    \/ Lookup
    \/ Download
    \/ Upload
    \/ Insert
    \/ Ack
    \/ Backoff

(* ------------------- POST /api/recordings/upload ----------------------- *)

\* a File of the form data, with its name and MIME type
File(name, ext, major, minor) ==
    [ present |-> TRUE, name |-> name, ext |-> ext,
      type |-> [ major |-> major, minor |-> minor ] ]

Files ==
    { NoFile,
      File("a.MP3", ".MP3", "audio", "mpeg"),
      File("a.MP3", ".MP3", "", ""),
      File("note.txt", ".txt", "text", "plain") }

\* the users a session can belong to, and "" for a request without session
Sessions == { "" } \cup { users[i] : i \in 1 .. Len(users) }

\* new Date().getTime() of a request
Clock == { d * 1000 : d \in Dates }

\* file.type.startsWith("audio/")
HasAudioType(file) == file.type.major = "audio"

\* String.prototype.toLowerCase() on the extensions of the model
ToLowerCase(ext) == IF ext = ".MP3" THEN ".mp3" ELSE ext

\* validExtensions.some(ext => file.name.toLowerCase().endsWith(ext))
HasValidExtension(file) ==
    ToLowerCase(file.ext) \in { ".mp3", ".wav", ".m4a", ".aac", ".ogg", ".flac" }

\* `manual/${session.user.id}/${timestamp.getTime()}-${file.name}`
ManualKey(user, now, file) ==
    [ source |-> "manual", userId |-> user, time |-> now,
      filename |-> [ generated |-> FALSE, name |-> file.name, rid |-> "" ] ]

\* the values of db.insert(recordings).values({...}) of the upload route
ManualRow(user, now, file, rid, path) ==
    [ id |-> rid,
      userId |-> user,
      deviceSn |-> "MANUAL",
      plaudFileId |-> [ prefix |-> "manual-", id |-> rid ],
      filename |-> [ generated |-> FALSE, name |-> file.name, rid |-> "" ],
      duration |-> 0,
      startTime |-> now,
      endTime |-> now,
      filesize |-> ByteLength,
      storagePath |-> path,
      storageType |-> Or(defaultStorageType, "local") ]

\* upload/route.ts POST
UploadPOST ==
    /\ uploads < MaxUploads
    /\ uploads' = uploads + 1
    /\ \E user \in Sessions, file \in Files, now \in Clock :
         /\ posted' = [ user |-> user, file |-> file ]
         /\ IF user = ""
            THEN lastPost' = 401 /\ UNCHANGED << blobs, catalog, faults >>
            ELSE IF ~file.present
            THEN lastPost' = 400 /\ UNCHANGED << blobs, catalog, faults >>
            ELSE IF ~HasAudioType(file) /\ ~HasValidExtension(file)
            THEN lastPost' = 400 /\ UNCHANGED << blobs, catalog, faults >>
            ELSE LET key == ManualKey(user, now, file)
                     row == ManualRow(user, now, file, Nanoid, key)
                 IN  \/ \* createUserStorageProvider or uploadFile throws
                        /\ Fault
                        /\ lastPost' = 500
                        /\ UNCHANGED << blobs, catalog >>
                     \/ \* the insert throws
                        /\ Fault
                        /\ lastPost' = 500
                        /\ blobs' = UploadFile(blobs, key, [ file_id |-> file.name, audio |-> TRUE ])
                        /\ UNCHANGED catalog
                     \/ /\ NoFault
                        /\ ~UniqueViolation(catalog, row)
                        /\ lastPost' = 200
                        /\ blobs' = UploadFile(blobs, key, [ file_id |-> file.name, audio |-> TRUE ])
                        /\ catalog' = DbInsert(catalog, row)
    /\ UNCHANGED << config, routes, arrived, trigger, pc, lastUpdateId, position,
                    locals, sent, hist, visits, polls >>

(* ------------------------- GET /api/export ----------------------------- *)

\* a || b on strings: the empty string, null and undefined are falsy

\* searchParams.get("format"): "" stands for a request without the parameter
FormatParams == { "", "json", "txt", "srt", "vtt", "xml" }

\* mutant: the switch has a case for every format
IsAnyFormat(f) == TRUE

\* the cases of switch (exportFormat)
IsExportFormat(f) == f \in { "json", "txt", "srt", "vtt" }

\* the Content-Type of each case
ContentType(f) ==
    IF f = "json" THEN "application/json"
    ELSE IF f = "vtt" THEN "text/vtt"
    ELSE "text/plain"

RECURSIVE NumberToString(_)
\* Number.prototype.toString() of a natural number, as its decimal digits
NumberToString(n) ==
    IF n < 10 THEN << ToString(n) >>
    ELSE NumberToString(n \div 10) \o << ToString(n % 10) >>

\* mutant: no padding
NoPad(str, n, c) == str

RECURSIVE PadStart(_, _, _)
\* String.prototype.padStart(n, c)
PadStart(str, n, c) ==
    IF Len(str) >= n THEN str ELSE PadStart(<< c >> \o str, n, c)

\* Date.prototype.getUTCHours() of the instant t (epoch milliseconds)
getUTCHours(t) == (t \div 3600000) % 24

getUTCMinutes(t) == (t \div 60000) % 60

getUTCSeconds(t) == (t \div 1000) % 60

getUTCMilliseconds(t) == t % 1000

\* const formatSRTTime = (date) => `${hours}:${minutes}:${seconds},${ms}`
FormatSRTTime(t) ==
    PadStart(NumberToString(getUTCHours(t)), 2, "0") \o << ":" >>
        \o PadStart(NumberToString(getUTCMinutes(t)), 2, "0") \o << ":" >>
        \o PadStart(NumberToString(getUTCSeconds(t)), 2, "0") \o << "," >>
        \o PadStart(NumberToString(getUTCMilliseconds(t)), 3, "0")

\* const formatVTTTime = (date) => `${hours}:${minutes}:${seconds}.${ms}`
FormatVTTTime(t) ==
    PadStart(NumberToString(getUTCHours(t)), 2, "0") \o << ":" >>
        \o PadStart(NumberToString(getUTCMinutes(t)), 2, "0") \o << ":" >>
        \o PadStart(NumberToString(getUTCSeconds(t)), 2, "0") \o << "." >>
        \o PadStart(NumberToString(getUTCMilliseconds(t)), 3, "0")

\* the orders in which a select without ORDER BY can return the rows
Orderings(rows) ==
    { f \in [ 1 .. Cardinality(rows) -> rows ] :
        \A i, j \in 1 .. Cardinality(rows) : i # j => f[i] # f[j] }

\* db.select().from(recordings).where(eq(recordings.userId, user))
RecordingsOf(user) == { r \in catalog : r.userId = user }

\* the select of the transcriptions of the user, skipped without recordings
TranscriptionsOf(user, list) ==
    IF Len(list) > 0 THEN { t \in transcripts : t.userId = user } ELSE { }

\* transcriptionMap.get(id)?.text, "" when there is none
TextOf(map, id) ==
    IF \E t \in map : t.recordingId = id
    THEN (CHOOSE t \in map : t.recordingId = id).text
    ELSE ""

\* the "" a recording without transcript text maps to
EmptyCue == [ index |-> 0, start |-> << >>, end |-> << >>, text |-> "" ]

\* the entry of one recording in each format (index counts from 0)
ExportEntry(f, list, map, index) ==
    LET recording == list[index + 1]
        text == TextOf(map, recording.id)
        startTime == recording.startTime
        endTime == startTime + recording.duration
    IN  IF f = "json"
        THEN [ id |-> recording.id, filename |-> recording.filename,
               duration |-> recording.duration, startTime |-> startTime,
               filesize |-> recording.filesize,
               transcription |-> Or(text, "null") ]
        ELSE IF f = "txt"
        THEN [ filename |-> recording.filename, startTime |-> startTime,
               text |-> Or(text, "No transcription") ]
        ELSE IF text = "" THEN EmptyCue
        ELSE IF f = "srt"
        THEN [ index |-> index + 1, start |-> FormatSRTTime(startTime),
               end |-> FormatSRTTime(endTime), text |-> text ]
        ELSE [ index |-> 0, start |-> FormatVTTTime(startTime),
               end |-> FormatVTTTime(endTime), text |-> text ]

\* userRecordings.map(...), with .filter(Boolean) for srt and vtt
ExportData(f, list, map) ==
    LET mapped == [ i \in 1 .. Len(list) |-> ExportEntry(f, list, map, i - 1) ]
    IN  IF f \in { "srt", "vtt" }
        THEN SelectSeq(mapped, LAMBDA cue : cue # EmptyCue)
        ELSE mapped

\* NextResponse.json({ error }, { status })
ErrorResponse(route, user, format, status, error) ==
    [ route |-> route, user |-> user, format |-> format, status |-> status,
      contentType |-> "application/json", body |-> << [ error |-> error ] >> ]

\* export route GET
ExportGET ==
    /\ \E user \in Sessions, param \in FormatParams :
         IF user = ""
         THEN /\ served' = ErrorResponse("export", user, param, 401,
                                         "Unauthorized")
              /\ NoFault
         ELSE \/ \* getSession or a select throws
                 /\ Fault
                 /\ served' = ErrorResponse("export", user, param, 500,
                                            "Failed to export recordings")
              \/ /\ NoFault
                 /\ \E userRecordings \in Orderings(RecordingsOf(user)) :
                      LET format == Or(param, "json")
                          exportFormat ==
                              Or(Or(format, settings[user]), "json")
                          transcriptionMap ==
                              TranscriptionsOf(user, userRecordings)
                      IN  served' =
                            IF IsExportFormat(exportFormat)
                            THEN [ route |-> "export", user |-> user,
                                   format |-> param, status |-> 200,
                                   contentType |-> ContentType(exportFormat),
                                   body |-> ExportData(exportFormat,
                                                       userRecordings,
                                                       transcriptionMap) ]
                            ELSE ErrorResponse("export", user, param, 400,
                                               "Invalid export format")
    /\ UNCHANGED << config, transcripts, settings, storageConfig, arrived,
                    trigger, pc, lastUpdateId, position, locals, catalog,
                    blobs, sent, manual, hist, visits, polls >>

(* ------------------------- POST /api/backup ---------------------------- *)

\* the entry of one recording in backupData.recordings
BackupEntry(recording, map) ==
    [ id |-> recording.id, filename |-> recording.filename,
      duration |-> recording.duration, startTime |-> recording.startTime,
      endTime |-> recording.endTime, filesize |-> recording.filesize,
      deviceSn |-> recording.deviceSn,
      transcription |-> Or(TextOf(map, recording.id), "null") ]

\* backup route POST
BackupPOST ==
    /\ \E user \in Sessions :
         IF user = ""
         THEN /\ served' = ErrorResponse("backup", user, "", 401,
                                         "Unauthorized")
              /\ NoFault
         ELSE \/ \* getSession or a select throws
                 /\ Fault
                 /\ served' = ErrorResponse("backup", user, "", 500,
                                            "Failed to create backup")
              \/ /\ NoFault
                 /\ \E userRecordings \in Orderings(RecordingsOf(user)) :
                      LET map == TranscriptionsOf(user, userRecordings)
                      IN  served' =
                            [ route |-> "backup", user |-> user,
                              format |-> "", status |-> 200,
                              contentType |-> "application/json",
                              body |-> [ i \in 1 .. Len(userRecordings) |->
                                           BackupEntry(userRecordings[i], map) ] ]
    /\ UNCHANGED << config, transcripts, settings, storageConfig, arrived,
                    trigger, pc, lastUpdateId, position, locals, catalog,
                    blobs, sent, manual, hist, visits, polls >>

(* ------------------------- GET /api/storage ---------------------------- *)

RECURSIVE TotalSize(_)
\* userRecordings.reduce((sum, r) => sum + r.filesize, 0)
TotalSize(rows) ==
    IF rows = { } THEN 0
    ELSE LET r == CHOOSE x \in rows : TRUE
         IN  r.filesize + TotalSize(rows \ { r })

\* storage info route GET
StorageInfoGET ==
    /\ \E user \in Sessions :
         IF user = ""
         THEN /\ served' = ErrorResponse("storage", user, "", 401,
                                         "Unauthorized")
              /\ NoFault
         ELSE \/ \* getSession or a select throws
                 /\ Fault
                 /\ served' = ErrorResponse("storage", user, "", 500,
                                            "Failed to fetch storage info")
              \/ /\ NoFault
                 /\ served' =
                      [ route |-> "storage", user |-> user, format |-> "",
                        status |-> 200, contentType |-> "application/json",
                        body |-> << [ storageType |->
                                        Or(storageConfig[user], "local"),
                                      totalSize |->
                                        TotalSize(RecordingsOf(user)),
                                      totalRecordings |->
                                        Cardinality(RecordingsOf(user)) ] >> ]
    /\ UNCHANGED << config, transcripts, settings, storageConfig, arrived,
                    trigger, pc, lastUpdateId, position, locals, catalog,
                    blobs, sent, manual, hist, visits, polls >>

(* --------------------------- specification ----------------------------- *)

Next ==
    \/ PollGET
    \/ BotLoop
    \/ UploadPOST

Spec == Init /\ [][Next]_vars

\* the event loop resumes the loop after each await that settles
FairSpec == Spec /\ WF_vars(BotLoop)

(* ----------------- the routes over a filled catalog -------------------- *)

\* recordings of earlier imports: a bot recording, a device recording that
\* ends after midnight UTC, and a manual upload of the second user
SampleRows ==
    LET voice == Message(TRUE, 2, "voice", "f1", 12, "", 3725)
        file == File("a.MP3", ".MP3", "audio", "mpeg")
    IN  { BotRow("u1", voice, "r1", StorageKey("u1", voice, "r1")),
          [ id |-> "r2", userId |-> "u1", deviceSn |-> "PLAUD",
            plaudFileId |-> [ prefix |-> "", id |-> "p2" ],
            filename |-> [ generated |-> FALSE, name |-> "b.mp3", rid |-> "" ],
            duration |-> 1500, startTime |-> 86399999, endTime |-> 86401499,
            filesize |-> ByteLength,
            storagePath |-> [ source |-> "plaud", userId |-> "u1",
                              time |-> 86399999,
                              filename |-> [ generated |-> FALSE,
                                             name |-> "b.mp3", rid |-> "" ] ],
            storageType |-> "local" ],
          ManualRow("u2", 3725000, file, "r3", ManualKey("u2", 3725000, file)) }

\* transcriptions of these recordings; one of them has no text
SampleTranscripts ==
    { [ recordingId |-> "r1", userId |-> "u1", text |-> "one" ],
      [ recordingId |-> "r2", userId |-> "u1", text |-> "two" ],
      [ recordingId |-> "r2", userId |-> "u1", text |-> "" ],
      [ recordingId |-> "r3", userId |-> "u2", text |-> "three" ] }

\* an application without the bot, with recordings already in the catalog
RoutesTables ==
    /\ tokenConfigured = FALSE
    /\ allowedEnv = [ set |-> FALSE, val |-> << >> ]
    /\ users \in UserTables
    /\ feed = << >>
    /\ defaultStorageType = ""
    /\ catalog \in SUBSET { r \in SampleRows : r.userId \in UserIds }
    /\ blobs = { [ key |-> r.storagePath,
                   bytes |-> [ file_id |-> r.plaudFileId.id, audio |-> TRUE ] ] :
                 r \in catalog }
    /\ transcripts \in
         { ts \in SUBSET SampleTranscripts :
             /\ \A t \in ts : \E r \in catalog : r.id = t.recordingId
             /\ \A t1, t2 \in ts :
                  t1.recordingId = t2.recordingId => t1 = t2 }
    /\ settings \in { [ u \in UserIds |-> "" ],
                       [ u \in UserIds |-> IF u = "u1" THEN "srt" ELSE "" ] }
    /\ storageConfig \in { [ u \in UserIds |-> "" ],
                            [ u \in UserIds |-> IF u = "u1" THEN "s3" ELSE "" ] }
    /\ Idle

\* the read-only routes of such an application
RoutesInit ==
    /\ RoutesTables
    /\ Started

RoutesNext ==
    \/ ExportGET
    \/ BackupPOST
    \/ StorageInfoGET

RoutesSpec == RoutesInit /\ [][RoutesNext]_vars

(* ------------------- the bot and the routes together ------------------- *)

\* number of updates the Telegram server holds when all routes are served
MaxSystemUpdates == 1

\* the states of Init without allow-list and with a short feed
SystemInit ==
    /\ Init
    /\ ~allowedEnv.set
    /\ Len(feed) <= MaxSystemUpdates

SystemNext ==
    \/ Next
    \/ ExportGET
    \/ BackupPOST
    \/ StorageInfoGET

SystemSpec == SystemInit /\ [][SystemNext]_vars

(* ------------- the application with Storage Configurations ------------- *)

\* env.DEFAULT_STORAGE_TYPE: unset, "local"
DefaultStorageTypes == { "", "local" }

\* storageConfig.storageType of a user: no row, "s3"
StorageTypes == { "", "s3" }

\* the backend of the provider createUserStorageProvider(userId) returns:
\* that of the user's Storage Configuration, the local one without it
ProviderType(user) == Or(storageConfig[user], "local")

\* the states of SystemInit with any DEFAULT_STORAGE_TYPE and any Storage
\* Configuration of the users
StorageInit ==
    /\ tokenConfigured \in BOOLEAN
    /\ allowedEnv = [ set |-> FALSE, val |-> << >> ]
    /\ users \in UserTables
    /\ feed \in Feeds(MaxSystemUpdates)
    /\ defaultStorageType \in DefaultStorageTypes
    /\ catalog = { }
    /\ blobs = { }
    /\ transcripts = { }
    /\ settings = [ u \in UserIds |-> "" ]
    /\ storageConfig \in [ UserIds -> StorageTypes ]
    /\ Idle
    /\ Started

StorageSpec == StorageInit /\ [][Next]_vars

(* ---------------------- docker-entrypoint.sh -------------------------- *)

\* the two entrypoint scripts of the repository
Variants == { "node", "bun" }

\* the non-zero statuses a failing command exits with
FailureStatuses == { 1, 2 }

\* everything but the state of the entrypoint
app ==
    << tokenConfigured, allowedEnv, users, feed, defaultStorageType, routes,
       arrived, trigger, pc, lastUpdateId, position, locals, catalog, blobs,
       sent, manual, hist, visits, polls, faults >>

\* until node -e "... SELECT 1 ..."; the bun script has no such loop
Probe ==
    /\ entry = "probe"
    /\ IF dbUp
       THEN /\ bootLog' = Append(bootLog, "probed")
            /\ entry' = "migrate"
       ELSE /\ bootLog' = bootLog
            /\ entry' = "sleep"
    /\ UNCHANGED << variant, dbUp, exitStatus, app >>

\* sleep 2; the database may have come up, or gone down, by the next probe
Sleep ==
    /\ entry = "sleep"
    /\ entry' = "probe"
    /\ dbUp' \in BOOLEAN
    /\ UNCHANGED << variant, bootLog, exitStatus, app >>

\* node: if node src/db/migrate.js; then ... else ... exit 1; fi
\* bun:  bun src/db/migrate.ts, under set -e
Migrate ==
    /\ entry = "migrate"
    /\ \/ /\ dbUp
          /\ bootLog' = Append(bootLog, "migrated")
          /\ entry' = "exec"
          /\ UNCHANGED exitStatus
       \/ \E status \in FailureStatuses :
             /\ entry' = "exited"
             /\ exitStatus' = IF variant = "node" THEN 1 ELSE status
             /\ UNCHANGED bootLog
    /\ UNCHANGED << variant, dbUp, app >>

\* exec "$@"
Exec ==
    /\ entry = "exec"
    /\ entry' = "app"
    /\ UNCHANGED << variant, dbUp, bootLog, exitStatus, app >>

\* the application the entrypoint has started serves its routes
Serve ==
    /\ entry = "app"
    /\ RoutesNext

BootInit ==
    /\ RoutesTables
    /\ variant \in Variants
    /\ entry = IF variant = "node" THEN "probe" ELSE "migrate"
    /\ dbUp \in BOOLEAN
    /\ bootLog = << >>
    /\ exitStatus = NoExit

BootNext ==
    \/ Probe
    \/ Sleep
    \/ Migrate
    \/ Exec
    \/ Serve

BootSpec == BootInit /\ [][BootNext]_vars

(* ------------- the loop with a server that keeps no order -------------- *)

\* the sequences with the elements of seq, in any order
Reorderings(seq) ==
    { r \in [ 1 .. Len(seq) -> { seq[i] : i \in 1 .. Len(seq) } ] :
        \A i, j \in 1 .. Len(seq) : i # j => r[i] # r[j] }

\* the answers of a server that may repeat updates below the offset and may
\* return them in any order
UnorderedAnswers(offset, upto) ==
    UNION { Reorderings(Pending(lo, upto)) : lo \in 1 .. Max(offset, 1) }

\* the largest update_id of a non-empty answer
LargestId(result) ==
    CHOOSE m \in { result[i].update_id : i \in 1 .. Len(result) } :
        \A i \in 1 .. Len(result) : result[i].update_id <= m

\* await tg('getUpdates', ...) answered by such a server: result.result is
\* taken as it comes
GetUpdatesUnordered ==
    /\ pc = "fetch"
    /\ \E a \in arrived .. Len(feed) :
         \E result \in UnorderedAnswers(GetUpdatesBody.offset, a) :
            /\ result # Pending(GetUpdatesBody.offset, a)
            /\ Fault
            /\ arrived' = a
            /\ lastPollFailed' = FALSE
            /\ seenMax' = Max(seenMax, LargestId(result))
            /\ batch' = result
            /\ idx' = 1
            /\ pc' = "next"
    /\ waitedMs' = 0
    /\ lastRequest' = GetUpdatesBody
    /\ UNCHANGED << config, routes, trigger, lastUpdateId, locals, catalog, blobs,
                    sent, manual, hist, visits >>

UnorderedInit ==
    /\ Init
    /\ ~allowedEnv.set

UnorderedNext ==
    \/ Next
    \/ GetUpdatesUnordered

UnorderedSpec == UnorderedInit /\ [][UnorderedNext]_vars

(* ------------------------------ claims --------------------------------- *)

\* the updates the server holds in this run
Delivered == 1 .. Len(feed)

\* the loop is inside the for body, at the update Cur
InBody == pc \in { "check", "lookup", "download", "upload", "insert", "ack" }

\* the for loop has taken update u and has left it
Done(u) == visits[u] > 0 /\ ~(InBody /\ Cur.update_id = u)

\* the rows of the catalog for the source file of update u
RowsOf(u) ==
    { r \in catalog : /\ r.userId = targetUser
                      /\ r.plaudFileId = [ prefix |-> "tg-", id |-> feed[u].file_id ] }

\* C1: the catalog never holds two Recordings with the same owning user and
\* the same source-system file identifier.
UniqueSourceFile ==
    \A r1, r2 \in catalog :
        (r1.userId = r2.userId /\ r1.plaudFileId = r2.plaudFileId) => r1 = r2

\* a source file was imported a second time and the catalog holds one row of it
ImportedTwice ==
    \E u \in Delivered : "duplicate" \in hist[u] /\ Cardinality(RowsOf(u)) = 1

\* C2: whenever the loop is done with a response (it waits for the next
\* getUpdates or is in backoff), the cursor is the largest update_id of the
\* responses received so far.
CursorIsMaxSeen ==
    pc \in { "fetch", "backoff" } => lastUpdateId = seenMax

\* C3: no step leaves more than one loop running; once the flag is set no
\* step starts a loop and every new answer of the route is "Polling already
\* active"; the request that finds the flag clear starts the loop.
SingleLoop ==
    [][ /\ running' <= 1
        /\ isPollingStarted =>
             /\ running' = running
             /\ isPollingStarted'
             /\ lastStatus' # lastStatus => lastStatus' = "Polling already active"
        /\ (~isPollingStarted /\ isPollingStarted') =>
             /\ running' = 1
             /\ lastStatus' = "Telegram polling started" ]_vars

\* a request found the loop running and left it alone
AlreadyActive == lastStatus = "Polling already active" /\ running = 1

\* C4: an update whose insert hit the uniqueness constraint is logged as no
\* error and is acknowledged like a successful import.
DuplicateIsBenign ==
    \A u \in Delivered :
        "duplicate" \in hist[u] => ("error" \notin hist[u] /\ "ack" \in hist[u])

\* the sender ids the configured allow-list names
ListedIds == { n \in 0 .. 9 : Includes(allowedUsers, n) }

\* update u comes from a sender outside a non-empty allow-list
Disallowed(u) ==
    /\ feed[u].present
    /\ feed[u].hasFrom
    /\ ListedIds # { }
    /\ feed[u].from \notin ListedIds

\* C5: for an update from a sender outside a non-empty allow-list the loop
\* looks up no user, downloads nothing, uploads no blob, inserts no Recording
\* and sends no acknowledgment.
DisallowedIsDiscarded ==
    /\ \A u \in Delivered :
         Disallowed(u) =>
           /\ hist[u] \cap { "received", "lookup", "download", "upload",
                             "insert", "duplicate", "ack" } = { }
           /\ Reply(Update(u, feed[u])) \notin sent
    /\ (\A u \in Delivered : Disallowed(u)) =>
           /\ \A r \in catalog : r.deviceSn # "TELEGRAM"
           /\ \A b \in blobs : b.key.source # "telegram"

\* the loop has discarded a voice message of a sender outside the allow-list
DiscardedVoice ==
    \E u \in Delivered :
        /\ Disallowed(u)
        /\ HasAudio(feed[u])
        /\ "unauthorized" \in hist[u]
        /\ Done(u)

\* C6: after a failed getUpdates call the next request is issued only when
\* the 5 second delay has elapsed.
BackoffAfterFailedPoll ==
    (pc = "fetch" /\ lastPollFailed) => waitedMs >= BackoffDelayMs

\* C7: once started the loop always comes back to the long-poll request.
LoopNeverEnds == (pc # "stopped") ~> (pc = "fetch")

\* the loop is back at the long-poll request after a backoff
ResumedAfterBackoff ==
    /\ pc = "fetch"
    /\ waitedMs = BackoffDelayMs
    /\ \E u \in Delivered : "pollerror" \in hist[u]

\* C8: inside the for body the cursor is the id of the current update, and
\* when the loop takes the next update the cursor is the id of the one it has
\* left, whatever that update carried.
CursorFirst ==
    /\ InBody => lastUpdateId = Cur.update_id
    /\ (pc = "next" /\ idx > 1) => lastUpdateId = batch[idx - 1].update_id
    /\ \A u \in Delivered : visits[u] > 0 => lastUpdateId >= u

\* the loop tests an update without message, the cursor already on it
CursorOnEmptyUpdate ==
    /\ pc = "check"
    /\ ~Cur.message.present
    /\ lastUpdateId = Cur.update_id

\* C9: the for loop takes each update at most once in a run.
AtMostOnce == \A u \in UpdateIds : visits[u] <= 1

\* an update whose processing threw was left behind by a later request
SkippedAfterThrow ==
    \E u \in Delivered :
        /\ "pollerror" \in hist[u]
        /\ visits[u] = 1
        /\ lastUpdateId > u

\* C10: a sendMessage request is issued for an update only after its
\* download (the file URL answered 2xx with the bytes), upload and insert
\* succeeded, and is issued for every update the loop has left with all
\* three done.
AckIffStored ==
    \A u \in Delivered :
        LET fetched == "download" \in hist[u] /\ "non2xx" \notin hist[u]
            stored == fetched /\ { "upload", "insert" } \subseteq hist[u]
            acked == Reply(Update(u, feed[u])) \in sent
        IN  /\ acked => stored
            /\ (Done(u) /\ stored) => acked

\* C11: the Recording created for an accepted voice or audio message holds
\* its duration in milliseconds (seconds times 1000, 0 when the message
\* carries none) and starts and ends at the instant of the message date.
RecordedTimes ==
    \A u \in Delivered :
        "insert" \in hist[u] =>
            /\ RowsOf(u) # { }
            /\ \A r \in RowsOf(u) :
                 /\ r.duration = IF feed[u].duration = Absent
                                 THEN 0
                                 ELSE feed[u].duration * 1000
                 /\ r.startTime % 1000 = 0
                 /\ r.startTime \div 1000 = feed[u].date
                 /\ r.endTime = r.startTime

\* a 12 second voice message was stored with duration 12000
TwelveSecondVoice ==
    \E u \in Delivered :
        /\ feed[u].kind = "voice"
        /\ feed[u].duration = 12
        /\ "insert" \in hist[u]
        /\ \E r \in RowsOf(u) : r.duration = 12000

\* update u carries no message, or a message without voice and audio
NonAudio(u) == ~feed[u].present \/ feed[u].kind \notin { "voice", "audio" }

\* C12: for an update without voice or audio payload the loop looks up no
\* user, downloads nothing, uploads no blob, inserts no Recording, sends no
\* acknowledgment and raises no error.
OnlyAudioHandled ==
    /\ \A u \in Delivered :
         NonAudio(u) =>
           /\ hist[u] \cap { "received", "lookup", "download", "upload",
                             "insert", "duplicate", "ack", "error",
                             "pollerror" } = { }
           /\ Reply(Update(u, feed[u])) \notin sent
    /\ (\A u \in Delivered : NonAudio(u)) =>
           /\ \A r \in catalog : r.deviceSn # "TELEGRAM"
           /\ \A b \in blobs : b.key.source # "telegram"

\* the loop has passed a text message of an allowed sender and has left it
IgnoredText ==
    \E u \in Delivered :
        /\ feed[u].kind = "text"
        /\ IsAllowed(feed[u].from)
        /\ Done(u)
        /\ lastUpdateId >= u

\* C13: every getUpdates request carries offset = cursor + 1 (1 while the
\* cursor is 0), timeout 30 and allowed_updates ['message'].
LongPollRequest ==
    /\ [](lastRequest # NoRequest =>
            /\ lastRequest.offset >= 1
            /\ lastRequest.timeout = 30
            /\ lastRequest.allowed_updates = << "message" >>)
    /\ [][ (pc = "fetch" /\ uploads' = uploads /\ lastStatus' = lastStatus) =>
             lastRequest' = [ offset |-> lastUpdateId + 1,
                              timeout |-> 30,
                              allowed_updates |-> << "message" >> ] ]_vars

\* a request was issued from an advanced cursor
RequestAfterUpdate ==
    /\ lastUpdateId > 0
    /\ lastRequest.offset = lastUpdateId + 1
    /\ lastRequest.timeout = LongPollTimeout

\* C14: when an insert fails behind a successful upload (in the loop or in
\* the upload route), the step deletes nothing: the uploaded blob is in the
\* storage and no Recording row refers to it.
OrphanAfterFailedInsert ==
    [][ /\ (pc = "insert" /\ pc' \notin { "insert", "ack" }) =>
             /\ catalog' = catalog
             /\ \E b \in blobs' : /\ b.key = storagePath
                                  /\ \A r \in catalog' : r.storagePath # b.key
        /\ (uploads' # uploads /\ lastPost' = 500 /\ blobs' # blobs) =>
             /\ catalog' = catalog
             /\ \E b \in blobs' : /\ b \notin blobs
                                  /\ \A r \in catalog' : r.storagePath # b.key
      ]_vars

\* the loop has left update u with the bytes downloaded and no blob uploaded
UploadThrew(u) == Done(u) /\ "download" \in hist[u] /\ "upload" \notin hist[u]

\* C15: when uploadFile throws, no Recording row is inserted for the payload;
\* the loop sends no acknowledgment and goes on with the next update (or the
\* next request), and the upload route answers 500.
StorageFailureSurfaced ==
    /\ [](\A u \in Delivered :
            UploadThrew(u) =>
              /\ "insert" \notin hist[u]
              /\ "ack" \notin hist[u]
              /\ "error" \in hist[u]
              /\ "pollerror" \notin hist[u]
              /\ Reply(Update(u, feed[u])) \notin sent)
    /\ [][ /\ (pc = "upload" /\ pc' \notin { "upload", "insert" }) =>
                /\ pc' = IF idx < Len(batch) THEN "next" ELSE "fetch"
                /\ idx' = IF idx < Len(batch) THEN idx + 1 ELSE 0
                /\ catalog' = catalog
                /\ blobs' = blobs
                /\ sent' = sent
           /\ (uploads' # uploads /\ faults' # faults) =>
                /\ lastPost' = 500
                /\ catalog' = catalog
         ]_vars

\* an upload of the loop threw and the loop has gone past the update
UploadFailedInLoop ==
    \E u \in Delivered :
        UploadThrew(u) /\ "error" \in hist[u] /\ pc \in { "next", "fetch" }

\* the storage keys of the blobs the loop has uploaded
TelegramKeys == { b.key : b \in { x \in blobs : x.key.source = "telegram" } }

\* C16: two updates with the same message (same date, same payload, same
\* target user) are uploaded under the same storage key.
DeterministicKey ==
    \A u1, u2 \in Delivered :
        ( /\ feed[u1] = feed[u2]
          /\ "upload" \in hist[u1]
          /\ "upload" \in hist[u2]
          /\ \A u \in Delivered : "upload" \in hist[u] => u \in { u1, u2 } )
        => Cardinality(TelegramKeys) <= 1

\* the rows of the catalog that carry the dedup key of update u
RowsWithKeyOf(u) ==
    { r \in catalog :
        r.plaudFileId = [ prefix |-> "tg-", id |-> feed[u].file_id ] }

\* C17: a payload processed successfully has exactly one Recording row, owned
\* by the first user, with source file identifier 'tg-' + file_id; the insert
\* adds one row to the catalog.
OneRowOfFirstUser ==
    /\ [](\A u \in Delivered :
            "insert" \in hist[u] =>
              /\ Cardinality(RowsWithKeyOf(u)) = 1
              /\ \A r \in RowsWithKeyOf(u) :
                   /\ r.userId = users[1]
                   /\ r.deviceSn = "TELEGRAM")
    /\ [][ (pc = "insert" /\ pc' = "ack") =>
             /\ Cardinality(catalog') = Cardinality(catalog) + 1
             /\ \E r \in catalog' :
                  /\ r \notin catalog
                  /\ r.userId = users[1]
                  /\ r.plaudFileId = [ prefix |-> "tg-",
                                       id |-> Cur.message.file_id ] ]_vars

\* the loop has stored an audio file for the first of two users
StoredForFirstUser ==
    \E u \in Delivered :
        /\ "insert" \in hist[u]
        /\ Len(users) = 2
        /\ \E r \in RowsWithKeyOf(u) : r.userId = users[1] /\ r.userId # users[2]

\* C18: no step of the bot loop, the poll trigger, the upload route, the
\* export route, the backup route or the storage route changes or deletes a
\* Recording row; a step can only add rows.
RowsImmutable == [][catalog \subseteq catalog']_vars

\* the catalog holds a bot recording and a manual one, and an export was served
ExportedTwoRows ==
    /\ \E r \in catalog : r.deviceSn = "TELEGRAM"
    /\ \E r \in catalog : r.deviceSn = "MANUAL"
    /\ served.route = "export"
    /\ served.status = 200

\* C19: on the upload and export routes no session gives 401, a missing or
\* non-audio file and an unknown export format give 400, a throw while
\* handling gives 500, every error status comes with an error payload, and a
\* success answer is given only to a request that failed in none of these ways.
FailuresAreErrors ==
    /\ [](uploads > 0 =>
            /\ lastPost \in { 200, 400, 401, 500 }
            /\ posted.user = "" => lastPost = 401
            /\ (posted.user # "" /\ ~posted.file.present) => lastPost = 400
            /\ ( /\ posted.user # ""
                 /\ posted.file.present
                 /\ posted.file.type.major # "audio"
                 /\ posted.file.ext = ".txt" ) => lastPost = 400
            /\ lastPost = 200 =>
                 /\ posted.user # ""
                 /\ posted.file.present
                 /\ \E r \in catalog :
                      /\ r.deviceSn = "MANUAL"
                      /\ r.userId = posted.user
                      /\ r.filename.name = posted.file.name)
    /\ [](served.route = "export" =>
            /\ served.status \in { 200, 400, 401, 500 }
            /\ served.user = "" => served.status = 401
            /\ served.format = "xml" => served.status # 200
            /\ served.status # 200 =>
                 /\ served.contentType = "application/json"
                 /\ Len(served.body) = 1
                 /\ "error" \in DOMAIN served.body[1])
    /\ [][ /\ (uploads' # uploads /\ faults' # faults) => lastPost' = 500
           /\ (served' # served /\ faults' # faults) => served'.status = 500
           /\ ( /\ served' # served
                /\ faults' = faults
                /\ served'.route = "export"
                /\ served'.user # ""
                /\ served'.format = "xml" ) => served'.status = 400
         ]_vars

\* an upload has failed with 500 and an export of an unknown format with 400
BothRoutesFailed ==
    /\ lastPost = 500
    /\ served.route = "export"
    /\ served.format = "xml"
    /\ served.status = 400

\* the characters "0" .. "9"
DigitChars == { ToString(d) : d \in 0 .. 9 }

\* the value of a decimal digit
DigitValue(c) == CHOOSE d \in 0 .. 9 : ToString(d) = c

\* str is hh:mm:ss<sep>mmm, zero-padded, for the UTC time of day of instant t
IsStamp(str, t, sep) ==
    /\ Len(str) = 12
    /\ str[3] = ":" /\ str[6] = ":" /\ str[9] = sep
    /\ \A i \in { 1, 2, 4, 5, 7, 8, 10, 11, 12 } : str[i] \in DigitChars
    /\ 10 * DigitValue(str[1]) + DigitValue(str[2]) = (t \div 3600000) % 24
    /\ 10 * DigitValue(str[4]) + DigitValue(str[5]) = (t \div 60000) % 60
    /\ 10 * DigitValue(str[7]) + DigitValue(str[8]) = (t \div 1000) % 60
    /\ 100 * DigitValue(str[10]) + 10 * DigitValue(str[11])
           + DigitValue(str[12]) = t % 1000

\* the transcript text of recording r for the user the export was served to
ServedText(r) ==
    IF \E t \in transcripts :
           t.recordingId = r.id /\ t.userId = served.user /\ t.text # ""
    THEN (CHOOSE t \in transcripts :
              t.recordingId = r.id /\ t.userId = served.user).text
    ELSE ""

\* C20: an SRT or VTT export holds one cue for each recording of the user
\* with a transcript, whose start is the recording's start time and whose end
\* is start time + duration, as zero-padded HH:MM:SS,mmm (SRT) or
\* HH:MM:SS.mmm (VTT).
CueTimes ==
    (served.route = "export" /\ served.status = 200
         /\ served.format \in { "srt", "vtt" }) =>
        LET sep == IF served.format = "srt" THEN "," ELSE "."
            rows == { r \in catalog :
                        r.userId = served.user /\ ServedText(r) # "" }
        IN  /\ Len(served.body) = Cardinality(rows)
            /\ \A r \in rows :
                 \E i \in 1 .. Len(served.body) :
                     /\ served.body[i].text = ServedText(r)
                     /\ IsStamp(served.body[i].start, r.startTime, sep)
                     /\ IsStamp(served.body[i].end,
                                r.startTime + r.duration, sep)

\* an SRT export shows the recording that starts at 23:59:59,999 UTC and
\* ends 1500 ms later, and the 12 second recording of 01:02:05
PaddedCues ==
    /\ served.format = "srt"
    /\ served.status = 200
    /\ \E i \in 1 .. Len(served.body) :
         /\ served.body[i].start =
              << "2", "3", ":", "5", "9", ":", "5", "9", ",", "9", "9", "9" >>
         /\ served.body[i].end =
              << "0", "0", ":", "0", "0", ":", "0", "1", ",", "4", "9", "9" >>
    /\ \E i \in 1 .. Len(served.body) :
         /\ served.body[i].start =
              << "0", "1", ":", "0", "2", ":", "0", "5", ",", "0", "0", "0" >>
         /\ served.body[i].end =
              << "0", "1", ":", "0", "2", ":", "1", "7", ",", "0", "0", "0" >>

\* C22: an export request without format parameter is served in the default
\* export format of the user's settings, and in json when the user has none.
ExportUsesStoredDefault ==
    (served.route = "export" /\ served.status = 200 /\ served.format = "") =>
        /\ settings[served.user] = "srt" =>
             /\ served.contentType = "text/plain"
             /\ \A i \in 1 .. Len(served.body) :
                  "start" \in DOMAIN served.body[i]
        /\ settings[served.user] = "" =>
             served.contentType = "application/json"

\* C24: the flag is set exactly when a loop is running; the step that sets it
\* is the step that starts the loop; no loop ends, so the flag is never
\* cleared and is never set without a loop.
FlagIffRunning ==
    /\ [](isPollingStarted <=> running = 1)
    /\ [](isPollingStarted <=> pc # "stopped")
    /\ [][ /\ (~isPollingStarted /\ isPollingStarted') =>
                (running = 0 /\ running' = 1 /\ pc = "stopped" /\ pc' = "fetch")
           /\ running' # running => (~isPollingStarted /\ isPollingStarted')
           /\ isPollingStarted => isPollingStarted' ]_vars

\* the flag is set while the running loop waits in its backoff
FlagHeldInBackoff ==
    isPollingStarted /\ running = 1 /\ pc = "backoff"

\* C25: every update the server has returned in a response is eventually
\* taken by the for loop, whatever failed for the updates before it.
LaterUpdatesProcessed ==
    \A u \in UpdateIds : (seenMax >= u) ~> (visits[u] > 0)

\* the update behind one whose user lookup threw was taken after the backoff
ProcessedAfterLookupFailure ==
    \E u \in Delivered :
        /\ "pollerror" \in hist[u]
        /\ u + 1 \in Delivered
        /\ visits[u + 1] > 0
        /\ lastRequest.offset = u + 1

\* C26: a blob is uploaded and a Recording inserted for an update only when
\* both steps of the fetch succeeded (getFile answered ok and the file URL
\* answered 2xx).
StoredOnlyIfFetched ==
    \A u \in Delivered :
        ("upload" \in hist[u] \/ "insert" \in hist[u]) =>
            ("download" \in hist[u] /\ "non2xx" \notin hist[u])

\* C28: without allow-list (TELEGRAM_ALLOWED_USERS unset or empty) the loop
\* discards no message as unauthorized.
EmptyAllowListAcceptsAll ==
    (~allowedEnv.set \/ allowedEnv.val = << >>) =>
        \A u \in Delivered : "unauthorized" \notin hist[u]

\* C29: while the loop processes an update whose source file already has a
\* Recording, no step of it changes the catalog or the stored blobs.
ReimportIsNoOp ==
    [][ ( /\ pc \in { "lookup", "download", "upload", "insert" }
          /\ uploads' = uploads
          /\ \E r \in catalog :
               /\ r.deviceSn = "TELEGRAM"
               /\ r.plaudFileId = [ prefix |-> "tg-",
                                    id |-> Cur.message.file_id ] )
        => (catalog' = catalog /\ blobs' = blobs) ]_vars

\* C30: the cues of an SRT export are numbered 1, 2, 3, ... in the order they
\* are emitted.
CueNumbersConsecutive ==
    (served.route = "export" /\ served.status = 200 /\ served.format = "srt") =>
        \A i \in 1 .. Len(served.body) : served.body[i].index = i

\* C27: the storageType tag of every Recording the bot loop or the upload
\* route has created is the backend of the provider created for its user.
TagNamesProvider ==
    \A r \in catalog :
        r.deviceSn \in { "TELEGRAM", "MANUAL" } =>
            r.storageType = ProviderType(r.userId)

\* C23: no step decreases the cursor, whatever the order of the updates in a
\* response and whichever updates it repeats.
CursorNeverDecreases ==
    [][lastUpdateId' >= lastUpdateId]_vars

\* C21: the application runs only after the probe of the database and then
\* the migrations have succeeded; an entrypoint that has exited has exited
\* with status 1, without completed migrations, and starts nothing.
EntrypointOrder ==
    /\ [](entry = "app" => bootLog = << "probed", "migrated" >>)
    /\ [](entry = "exited" =>
            /\ exitStatus = 1
            /\ \A i \in 1 .. Len(bootLog) : bootLog[i] # "migrated")
    /\ [][entry = "exited" => entry' = "exited"]_vars

====
